---- MODULE Spec2Model ----
(***************************************************************************)
(* Model of reference_format/fetch_apa_excel.py and fetch_apa_word.py:     *)
(* CrossRef lookup result -> metadata record -> APA citation -> CSV / Word *)
(* export, and the batch drivers that loop over a column of titles.        *)
(*                                                                         *)
(* Python strings are sequences of one-character strings, so that          *)
(* str.split, str.join, indexing and f-string concatenation are computed   *)
(* character by character.                                                 *)
(***************************************************************************)
EXTENDS Integers, Sequences, FiniteSets, TLC

VARIABLES
    \* ---- one lookup followed through both modules
    title,          \* the title passed to fetch_metadata
    response,       \* what requests.get / raise_for_status / json() produced
    fpc,            \* position: "start", "fetched", "formatted", "saved"
    authorsX,       \* local list <<"a","u","t","h","o","r","s">> at fetch_apa_excel.py:32
    authorsW,       \* local list <<"a","u","t","h","o","r","s">> at fetch_apa_word.py:28
    metadataX,      \* fetch_apa_excel.fetch_metadata(title)
    metadataW,      \* fetch_apa_word.fetch_metadata(title)
    refX,           \* fetch_apa_excel.format_apa(metadataX)
    refW,           \* fetch_apa_word.format_apa(metadataW)
    doc,            \* paragraphs of the Document built by save_to_word([refW])
    \* ---- two metadata records handed to fetch_apa_excel.format_apa
    rec1, rec2, cit1, cit2, ppc,
    \* ---- the batch drivers
    path,           \* "csv": process_titles, "word": process_titles_to_word
    input,          \* the input CSV file as pd.read_csv sees it
    pc,             \* position in the driver
    idx,            \* 1-based position of the loop over df["Title"]
    metadata,       \* local <<"m","e","t","a","d","a","t","a">> of the loop body
    apa_reference,  \* local <<"a","p","a","_","r","e","f","e","r","e","n","c","e">> of the loop body
    apa_references, \* the list the loop appends to
    lookups,        \* every requests.get issued so far, with its outcome
    sink,           \* every write to the output file so far
    printed         \* what the driver printed

fvars == <<title, response, fpc, authorsX, authorsW, metadataX, metadataW, refX, refW, doc>>
pvars == <<rec1, rec2, cit1, cit2, ppc>>
bvars == <<path, input, pc, idx, metadata, apa_reference, apa_references, lookups, sink, printed>>
vars == <<fvars, pvars, bvars>>

(***************************************************************************)
(* Bounds of the model                                                     *)
(***************************************************************************)
MaxAuthors == 3
MaxTitles == 3

(***************************************************************************)
(* Python values                                                           *)
(***************************************************************************)
StrV(s) == [k |-> "str", n |-> 0, s |-> s]
IntV(n) == [k |-> "int", n |-> n, s |-> <<>>]
None == [k |-> "none", n |-> 0, s |-> <<>>]
\* a key that is not in the dict
Missing == [k |-> "missing", n |-> 0, s |-> <<>>]

\* truth value of <<"v">> in <<"i","f"," ","v">>, <<"a"," ","a","n","d"," ","b">>, <<"a"," ","o","r"," ","b">>
Truthy(v) ==
    CASE v.k = "str" -> v.s # <<>>
      [] v.k = "int" -> v.n # 0
      [] OTHER -> FALSE

\* dict.get(key, default) where v is the stored value or Missing
dict_get(v, default) == IF v.k = "missing" THEN default ELSE v

Digit(d) == <<"0", "1", "2", "3", "4", "5", "6", "7", "8", "9">>[d + 1]

RECURSIVE IntStr(_)
IntStr(n) == IF n < 10 THEN <<Digit(n)>> ELSE IntStr(n \div 10) \o <<Digit(n % 10)>>

\* what an f-string puts for {v}
Format(v) ==
    CASE v.k = "str" -> v.s
      [] v.k = "int" -> IntStr(v.n)
      [] OTHER -> <<"N","o","n","e">>

Whitespace == {" ", "\t"}

\* str.split() with no separator: runs of whitespace separate, no empty token
RECURSIVE SplitFrom(_, _, _)
SplitFrom(s, cur, acc) ==
    IF s = <<>> THEN (IF cur = <<>> THEN acc ELSE Append(acc, cur))
    ELSE IF Head(s) \in Whitespace
         THEN SplitFrom(Tail(s), <<>>, IF cur = <<>> THEN acc ELSE Append(acc, cur))
         ELSE SplitFrom(Tail(s), Append(cur, Head(s)), acc)

split(s) == SplitFrom(s, <<>>, <<>>)

\* sep.join(parts)
RECURSIVE join(_, _)
join(sep, parts) ==
    IF parts = <<>> THEN <<>>
    ELSE IF Len(parts) = 1 THEN parts[1]
    ELSE parts[1] \o sep \o join(sep, Tail(parts))

NA == <<"N","/","A">>
ND == <<"n",".","d",".">>

(***************************************************************************)
(* fetch_metadata: the part both modules share                             *)
(***************************************************************************)
\* a function that returned v, or raised an exception whose str() is msg
Returned(v) == [raised |-> FALSE, msg |-> <<>>, v |-> v]
Raised(msg) == [raised |-> TRUE, msg |-> msg, v |-> None]

IndexError == <<"l","i","s","t"," ","i","n","d","e","x"," ","o","u","t"," ","o","f"," ","r","a","n","g","e">>

\* {"Error": msg}
ErrorRecord(msg) ==
    [hasError |-> TRUE, Error |-> msg, Author |-> None, Year |-> None, Title |-> None,
     Journal |-> None, Volume |-> None, Issue |-> None, Pages |-> None, DOI |-> None]

\* " ".join([name[0] + "." for name in given.split()])
RECURSIVE initials_of(_)
initials_of(tokens) ==
    IF tokens = <<>> THEN <<>>
    ELSE <<<<tokens[1][1], ".">>>> \o initials_of(Tail(tokens))

initials(given) == join(<<" ">>, initials_of(split(given)))

\* the loop over item["author"], from the first author still to visit
RECURSIVE author_loop(_)
author_loop(as) ==
    IF as = <<>> THEN <<>>
    ELSE LET given == dict_get(as[1].given, StrV(<<>>))
             family == dict_get(as[1].family, StrV(<<>>))
         IN (IF Truthy(given) /\ Truthy(family)
             THEN <<family.s \o <<","," ">> \o initials(given.s)>>
             ELSE <<>>) \o author_loop(Tail(as))

\* the list <<"a","u","t","h","o","r","s">> once the loop is over
render_authors(item) == IF item.hasAuthor THEN author_loop(item.author) ELSE <<>>

\* item.get("published-print", {}).get("date-parts", [[None]])[0][0] or "n.d."
year_of(item) ==
    LET dp == IF item.hasPP /\ item.hasDP THEN item.dateParts ELSE <<<<None>>>>
    IN IF Len(dp) = 0 THEN Raised(IndexError)
       ELSE IF Len(dp[1]) = 0 THEN Raised(IndexError)
       ELSE Returned(IF Truthy(dp[1][1]) THEN dp[1][1] ELSE StrV(ND))

\* item.get("container-title", ["N/A"])[0] or "N/A"
journal_of(item) ==
    LET ct == IF item.hasCT THEN item.containerTitle ELSE <<StrV(NA)>>
    IN IF Len(ct) = 0 THEN Raised(IndexError)
       ELSE Returned(IF Truthy(ct[1]) THEN ct[1] ELSE StrV(NA))

\* mutant: an absent key is left empty
field_of_empty(v) == dict_get(v, StrV(<<>>))

\* item.get(key, "N/A") for volume, issue, page, DOI
field_of(v) == dict_get(v, StrV(NA))

\* the dict literal <<"m","e","t","a","d","a","t","a"," ","="," ","{",".",".",".","}">>: the values are evaluated in order, and
\* the first that raises ends the try block
metadata_of(author_string, t, item) ==
    LET y == year_of(item)
        j == journal_of(item)
    IN IF y.raised THEN Raised(y.msg)
       ELSE IF j.raised THEN Raised(j.msg)
       ELSE Returned([hasError |-> FALSE, Error |-> <<>>,
                      Author |-> StrV(author_string), Year |-> y.v, Title |-> StrV(t),
                      Journal |-> j.v, Volume |-> field_of(item.volume),
                      Issue |-> field_of(item.issue), Pages |-> field_of(item.page),
                      DOI |-> field_of(item.DOI)])

\* "message" in data and "items" in data["message"] and len(...) > 0
has_items(resp) == resp.hasMessage /\ resp.hasItems /\ Len(resp.items) > 0

NoData == <<"N","o"," ","d","a","t","a"," ","f","o","u","n","d"," ","f","o","r"," ","t","h","i","s"," ","t","i","t","l","e",".">>

(***************************************************************************)
(* fetch_apa_excel.py                                                      *)
(***************************************************************************)
\* mutant: two authors joined as the comment at line 21 words it, ", & "
combine_authors_comma(authors) ==
    IF Len(authors) = 1 THEN authors[1]
    ELSE IF Len(authors) >= 2
         THEN join(<<","," ">>, SubSeq(authors, 1, Len(authors) - 1)) \o <<","," ","&"," ">> \o authors[Len(authors)]
    ELSE NA

\* Combine authors according to APA rules
combine_authors(authors) ==
    IF Len(authors) = 1 THEN authors[1]
    ELSE IF Len(authors) = 2 THEN join(<<" ","&"," ">>, authors)
    ELSE IF Len(authors) > 2
         THEN join(<<","," ">>, SubSeq(authors, 1, Len(authors) - 1)) \o <<","," ","&"," ">> \o authors[Len(authors)]
    ELSE NA

fetch_metadata_excel(t, resp) ==
    IF resp.kind = "raise" THEN ErrorRecord(resp.msg)
    ELSE IF has_items(resp)
    THEN LET item == resp.items[1]
             r == metadata_of(combine_authors(render_authors(item)), t, item)
         IN IF r.raised THEN ErrorRecord(r.msg) ELSE r.v
    ELSE ErrorRecord(NoData)

\* mutant: the issue goes in without its parentheses
issue_part_bare(md) == IF md.Issue # StrV(NA) THEN Format(md.Issue) ELSE <<>>

\* issue = f"({metadata['Issue']})" if metadata["Issue"] != "N/A" else ""
issue_part(md) == IF md.Issue # StrV(NA) THEN <<"(">> \o Format(md.Issue) \o <<")">> ELSE <<>>

\* mutant: the doi goes in without the resolver prefix
doi_part_bare(md) == IF md.DOI # StrV(NA) THEN Format(md.DOI) ELSE NA

\* doi = f"https://doi.org/{metadata['DOI']}" if metadata["DOI"] != "N/A" else "N/A"
doi_part(md) == IF md.DOI # StrV(NA) THEN <<"h","t","t","p","s",":","/","/","d","o","i",".","o","r","g","/">> \o Format(md.DOI) ELSE NA

\* the f-string apa_reference
apa_reference_of(md) ==
    Format(md.Author) \o <<" ","(">> \o Format(md.Year) \o <<")","."," ">> \o Format(md.Title)
    \o <<"."," ","*">> \o Format(md.Journal) \o <<"*",","," ">> \o Format(md.Volume) \o issue_part(md)
    \o <<","," ">> \o Format(md.Pages) \o <<"."," ">> \o doi_part(md)

\* mutant: the message is labelled instead of returned as it is
format_apa_excel_labelled(md) ==
    IF md.hasError THEN <<"E","r","r","o","r",":"," ">> \o md.Error ELSE apa_reference_of(md)

format_apa_excel(md) == IF md.hasError THEN md.Error ELSE apa_reference_of(md)

(***************************************************************************)
(* fetch_apa_word.py                                                       *)
(***************************************************************************)
\* ", ".join(authors) if authors else "N/A"
join_authors(authors) == IF authors # <<>> THEN join(<<","," ">>, authors) ELSE NA

fetch_metadata_word(t, resp) ==
    IF resp.kind = "raise" THEN ErrorRecord(resp.msg)
    ELSE IF has_items(resp)
    THEN LET item == resp.items[1]
             r == metadata_of(join_authors(render_authors(item)), t, item)
         IN IF r.raised THEN ErrorRecord(r.msg) ELSE r.v
    ELSE ErrorRecord(NoData)

\* what format_apa returns: the error message (a str) or the dict apa_reference
StrRef(s) ==
    [isDict |-> FALSE, text |-> s, Author |-> None, Year |-> None, Title |-> None,
     Journal |-> None, Volume |-> None, Issue |-> <<>>, Pages |-> None, DOI |-> <<>>]

format_apa_word(md) ==
    IF md.hasError THEN StrRef(md.Error)
    ELSE [isDict |-> TRUE, text |-> <<>>, Author |-> md.Author, Year |-> md.Year,
          Title |-> md.Title, Journal |-> md.Journal, Volume |-> md.Volume,
          Issue |-> issue_part(md), Pages |-> md.Pages, DOI |-> doi_part(md)]

Run(text, bold, italic) == [text |-> text, bold |-> bold, italic |-> italic]

\* the paragraph save_to_word adds for one reference
paragraph_of(ref) ==
    IF ref.isDict
    THEN [style |-> "Normal",
          runs |-> << Run(Format(ref.Author) \o <<" ","(">> \o Format(ref.Year) \o <<")","."," ">>
                          \o Format(ref.Title) \o <<"."," ">>, "False", "None"),
                      Run(ref.Journal.s, "None", "True"),
                      Run(<<","," ">> \o Format(ref.Volume) \o ref.Issue \o <<","," ">>
                          \o Format(ref.Pages) \o <<"."," ">> \o ref.DOI, "None", "None") >>]
    ELSE [style |-> "Normal", runs |-> <<Run(ref.text, "None", "None")>>]

RECURSIVE paragraphs_of(_)
paragraphs_of(references) ==
    IF references = <<>> THEN <<>>
    ELSE <<paragraph_of(references[1])>> \o paragraphs_of(Tail(references))

\* the document handed to doc.save
save_to_word(references) ==
    <<[style |-> "Heading 1", runs |-> <<Run(<<"A","P","A"," ","R","e","f","e","r","e","n","c","e","s">>, "None", "None")>>]>>
    \o paragraphs_of(references)

(***************************************************************************)
(* Lookup outcomes                                                         *)
(***************************************************************************)
Author(given, family) == [given |-> given, family |-> family]

ThreeAuthors ==
    << Author(StrV(<<"J","o","h","n">>), StrV(<<"S","m","i","t","h">>)), Author(StrV(<<"J","a","n","e">>), StrV(<<"D","o","e">>)),
       Author(StrV(<<"K","i","m">>), StrV(<<"L","e","e">>)) >>

\* entries of item["author"]
AuthorPool ==
    { Author(StrV(<<"J","o","h","n"," ","M","i","c","h","a","e","l">>), StrV(<<"S","m","i","t","h">>)),
      Author(StrV(<<"J","a","n","e">>), StrV(<<"D","o","e">>)),
      Author(StrV(<<" ">>), StrV(<<"L","e","e">>)),
      Author(Missing, StrV(<<"K","i","m">>)),
      Author(StrV(<<"A","n","n">>), StrV(<<>>)) }

\* item["author"]: absent, or a list of at most MaxAuthors entries
AuthorShapes ==
    { [has |-> FALSE, list |-> <<>>] }
    \cup { [has |-> TRUE, list |-> l] : l \in UNION { [1..n -> AuthorPool] : n \in 0..MaxAuthors } }

\* item["published-print"]: absent, without date-parts, or with date-parts
YearShapes ==
    { [hasPP |-> FALSE, hasDP |-> FALSE, dateParts |-> <<>>],
      [hasPP |-> TRUE, hasDP |-> FALSE, dateParts |-> <<>>] }
    \cup { [hasPP |-> TRUE, hasDP |-> TRUE, dateParts |-> d] :
             d \in { <<>>, <<<<>>>>, <<<<None>>>>, <<<<IntV(0)>>>>, <<<<IntV(2020), IntV(5)>>>> } }

\* item["container-title"]: absent, or a list
JournalShapes ==
    { [hasCT |-> FALSE, containerTitle |-> <<>>] }
    \cup { [hasCT |-> TRUE, containerTitle |-> c] :
             c \in { <<>>, <<StrV(<<>>)>>, <<StrV(<<"J","."," ","o","f"," ","T","h","i","n","g","s">>)>> } }

Item(au, ys, js, vo, is, pg, di) ==
    [hasAuthor |-> au.has, author |-> au.list, hasPP |-> ys.hasPP, hasDP |-> ys.hasDP,
     dateParts |-> ys.dateParts, hasCT |-> js.hasCT, containerTitle |-> js.containerTitle,
     volume |-> vo, issue |-> is, page |-> pg, DOI |-> di]

Volumes == { Missing, StrV(<<"1","2">>), StrV(<<>>) }
Issues == { Missing, StrV(<<"2">>) }
Pages == { Missing, StrV(<<"1","0","-","2","0">>) }
DOIs == { Missing, StrV(<<"1","0",".","1","/","a","b","c">>) }

FullYear == [hasPP |-> TRUE, hasDP |-> TRUE, dateParts |-> <<<<IntV(2020), IntV(5)>>>>]
FullJournal == [hasCT |-> TRUE, containerTitle |-> <<StrV(<<"J","."," ","o","f"," ","T","h","i","n","g","s">>)>>]

\* every author list with every field present or every field absent, and
\* every combination of the other fields with zero, one, two and three authors
Items ==
    { Item(au, FullYear, FullJournal, StrV(<<"1","2">>), StrV(<<"2">>), StrV(<<"1","0","-","2","0">>), StrV(<<"1","0",".","1","/","a","b","c">>)) :
        au \in AuthorShapes }
    \cup { Item(au, [hasPP |-> FALSE, hasDP |-> FALSE, dateParts |-> <<>>],
                [hasCT |-> FALSE, containerTitle |-> <<>>], Missing, Missing, Missing, Missing) :
        au \in AuthorShapes }
    \cup { Item([has |-> TRUE, list |-> SubSeq(ThreeAuthors, 1, n)], ys, js, vo, is, pg, di) :
        n \in 0..3, ys \in YearShapes, js \in JournalShapes, vo \in Volumes, is \in Issues,
        pg \in Pages, di \in DOIs }

\* requests.get, raise_for_status or json() raised; str(e) is msg
RaiseResponse(msg) == [kind |-> "raise", msg |-> msg, hasMessage |-> FALSE, hasItems |-> FALSE, items |-> <<>>]
\* json() returned a dict
JsonResponse(hasMessage, hasItems, items) ==
    [kind |-> "json", msg |-> <<>>, hasMessage |-> hasMessage, hasItems |-> hasItems, items |-> items]

FailedResponses ==
    { RaiseResponse(<<"R","e","a","d"," ","t","i","m","e","d"," ","o","u","t",".">>), RaiseResponse(<<"4","0","4"," ","C","l","i","e","n","t"," ","E","r","r","o","r">>),
      JsonResponse(FALSE, FALSE, <<>>), JsonResponse(TRUE, FALSE, <<>>),
      JsonResponse(TRUE, TRUE, <<>>) }

Responses == FailedResponses \cup { JsonResponse(TRUE, TRUE, <<it>>) : it \in Items }

Titles == { <<"S","t","u","d","y"," ","X">>, <<"Y">> }

(***************************************************************************)
(* One lookup followed through both modules                                *)
(***************************************************************************)
Idle == <<>>

FIdle ==
    /\ title = Idle /\ response = Idle /\ fpc = "idle"
    /\ authorsX = Idle /\ authorsW = Idle /\ metadataX = Idle /\ metadataW = Idle
    /\ refX = Idle /\ refW = Idle /\ doc = Idle

PIdle == rec1 = Idle /\ rec2 = Idle /\ cit1 = Idle /\ cit2 = Idle /\ ppc = "idle"

BIdle ==
    /\ path = "idle" /\ input = Idle /\ pc = "idle" /\ idx = 0 /\ metadata = Idle
    /\ apa_reference = Idle /\ apa_references = Idle /\ lookups = Idle /\ sink = Idle
    /\ printed = Idle

FInit ==
    /\ title \in Titles
    /\ response \in Responses
    /\ fpc = "start"
    /\ authorsX = Idle /\ authorsW = Idle /\ metadataX = Idle /\ metadataW = Idle
    /\ refX = Idle /\ refW = Idle /\ doc = Idle
    /\ PIdle /\ BIdle

\* the list <<"a","u","t","h","o","r","s">> when fetch_metadata leaves the author loop, if it gets there
authors_local(resp) ==
    IF resp.kind = "json" /\ has_items(resp) THEN render_authors(resp.items[1]) ELSE <<>>

\* fetch_metadata(title) of both modules on the same response
FetchMetadata ==
    /\ fpc = "start"
    /\ authorsX' = authors_local(response)
    /\ authorsW' = authors_local(response)
    /\ metadataX' = fetch_metadata_excel(title, response)
    /\ metadataW' = fetch_metadata_word(title, response)
    /\ fpc' = "fetched"
    /\ UNCHANGED <<title, response, refX, refW, doc, pvars, bvars>>

\* format_apa(metadata) of both modules
FormatApa ==
    /\ fpc = "fetched"
    /\ refX' = format_apa_excel(metadataX)
    /\ refW' = format_apa_word(metadataW)
    /\ fpc' = "formatted"
    /\ UNCHANGED <<title, response, authorsX, authorsW, metadataX, metadataW, doc, pvars, bvars>>

\* save_to_word([apa_reference], output_word)
SaveToWord ==
    /\ fpc = "formatted"
    /\ doc' = save_to_word(<<refW>>)
    /\ fpc' = "saved"
    /\ UNCHANGED <<title, response, authorsX, authorsW, metadataX, metadataW, refX, refW, pvars, bvars>>

FNext == FetchMetadata \/ FormatApa \/ SaveToWord

SpecFmt == FInit /\ [][FNext]_vars

(***************************************************************************)
(* Two metadata records composed by fetch_apa_excel.format_apa             *)
(***************************************************************************)
MetadataRecord(au, yr, ti, jo, vo, is, pg, di) ==
    [hasError |-> FALSE, Error |-> <<>>, Author |-> au, Year |-> yr, Title |-> ti,
     Journal |-> jo, Volume |-> vo, Issue |-> is, Pages |-> pg, DOI |-> di]

Records ==
    { MetadataRecord(au, yr, ti, jo, vo, is, pg, di) :
        au \in { StrV(<<"L","e","e",","," ","A",".">>), StrV(NA) },
        yr \in { IntV(2020), StrV(ND) },
        ti \in { StrV(<<"S","t","u","d","y"," ","X">>), StrV(<<"S","t","u","d","y"," ","X","."," ","*","J">>) },
        jo \in { StrV(<<"J","."," ","o","f"," ","T","h","i","n","g","s">>), StrV(<<"J","."," ","*","J","."," ","o","f"," ","T","h","i","n","g","s">>) },
        vo \in { StrV(<<"5">>), StrV(<<"5","2">>), StrV(<<"5","(","2",")">>) },
        is \in { StrV(NA), StrV(<<"2">>), StrV(<<>>) },
        pg \in { StrV(<<"1","0","-","2","0">>) },
        di \in { StrV(NA), StrV(<<"1","0",".","1","/","a","b","c">>) } }
    \cup { ErrorRecord(NoData), ErrorRecord(<<"R","e","a","d"," ","t","i","m","e","d"," ","o","u","t",".">>) }

PInit ==
    /\ rec1 \in Records
    /\ rec2 \in Records
    /\ cit1 = Idle /\ cit2 = Idle
    /\ ppc = "start"
    /\ FIdle /\ BIdle

\* format_apa(rec1) and format_apa(rec2)
FormatPair ==
    /\ ppc = "start"
    /\ cit1' = format_apa_excel(rec1)
    /\ cit2' = format_apa_excel(rec2)
    /\ ppc' = "formatted"
    /\ UNCHANGED <<rec1, rec2, fvars, bvars>>

PNext == FormatPair

SpecPair == PInit /\ [][PNext]_vars

(***************************************************************************)
(* The batch drivers: process_titles and process_titles_to_word            *)
(***************************************************************************)
\* pd.read_csv(input_csv): no such file, a frame without a Title column, or
\* a frame whose Title column holds these titles
InputFile(found, hasTitleColumn, titles) ==
    [found |-> found, hasTitleColumn |-> hasTitleColumn, titles |-> titles]

Inputs ==
    { InputFile(FALSE, FALSE, <<>>), InputFile(TRUE, FALSE, <<>>) }
    \cup { InputFile(TRUE, TRUE, ts) : ts \in UNION { [1..n -> Titles] : n \in 0..MaxTitles } }

\* what a lookup made by the driver can produce
BatchResponses ==
    { RaiseResponse(<<"R","e","a","d"," ","t","i","m","e","d"," ","o","u","t",".">>),
      JsonResponse(TRUE, TRUE, <<>>),
      JsonResponse(TRUE, TRUE, <<Item([has |-> TRUE, list |-> SubSeq(ThreeAuthors, 1, 2)],
          FullYear, FullJournal, StrV(<<"1","2">>), StrV(<<"2">>), StrV(<<"1","0","-","2","0">>), StrV(<<"1","0",".","1","/","a","b","c">>))>>),
      JsonResponse(TRUE, TRUE, <<Item([has |-> FALSE, list |-> <<>>],
          FullYear, [hasCT |-> TRUE, containerTitle |-> <<>>], StrV(<<"1","2">>), Missing,
          StrV(<<"1","0","-","2","0">>), Missing)>>) }

fetch_metadata(p, t, resp) ==
    IF p = "csv" THEN fetch_metadata_excel(t, resp) ELSE fetch_metadata_word(t, resp)

format_apa(p, md) ==
    IF p = "csv" THEN format_apa_excel(md) ELSE format_apa_word(md)

Output(kind, rows, document) == [kind |-> kind, rows |-> rows, doc |-> document]

BInit ==
    /\ path \in {"csv", "word"}
    /\ input \in Inputs
    /\ pc = "start"
    /\ idx = 0
    /\ metadata = Idle /\ apa_reference = Idle /\ apa_references = <<>>
    /\ lookups = <<>> /\ sink = <<>> /\ printed = <<>>
    /\ FIdle /\ PIdle

\* df = pd.read_csv(input_csv); the Title column check; apa_references = []
ReadCsv ==
    /\ pc = "start"
    /\ IF ~input.found
       THEN /\ printed' = Append(printed, <<"E","r","r","o","r",":"," ","N","o"," ","s","u","c","h"," ","f","i","l","e"," ","o","r"," ","d","i","r","e","c","t","o","r","y">>)
            /\ pc' = "done"
            /\ UNCHANGED idx
       ELSE IF ~input.hasTitleColumn
       THEN /\ printed' = Append(printed, <<"E","r","r","o","r",":"," ","I","n","p","u","t"," ","C","S","V"," ","m","u","s","t"," ","c","o","n","t","a","i","n"," ","a"," ","'","T","i","t","l","e","'"," ","c","o","l","u","m","n",".">>)
            /\ pc' = "done"
            /\ UNCHANGED idx
       ELSE /\ pc' = "loop"
            /\ idx' = 1
            /\ UNCHANGED printed
    /\ UNCHANGED <<path, input, metadata, apa_reference, apa_references, lookups, sink, fvars, pvars>>

\* mutant: no try/except around the request, so a failed one ends the batch
BatchFetch_unguarded ==
    /\ pc = "loop"
    /\ idx <= Len(input.titles)
    /\ \E resp \in BatchResponses :
         /\ lookups' = Append(lookups, [index |-> idx, title |-> input.titles[idx], response |-> resp])
         /\ IF resp.kind = "raise"
            THEN /\ printed' = Append(printed, <<"U","n","e","x","p","e","c","t","e","d"," ","e","r","r","o","r",":"," ">> \o resp.msg)
                 /\ pc' = "done"
                 /\ UNCHANGED metadata
            ELSE /\ metadata' = fetch_metadata(path, input.titles[idx], resp)
                 /\ pc' = "fetched"
                 /\ UNCHANGED printed
    /\ UNCHANGED <<path, input, idx, apa_reference, apa_references, sink, fvars, pvars>>

\* metadata = fetch_metadata(title): one requests.get and what it leads to
BatchFetch ==
    /\ pc = "loop"
    /\ idx <= Len(input.titles)
    /\ \E resp \in BatchResponses :
         /\ lookups' = Append(lookups, [index |-> idx, title |-> input.titles[idx], response |-> resp])
         /\ metadata' = fetch_metadata(path, input.titles[idx], resp)
    /\ pc' = "fetched"
    /\ UNCHANGED <<path, input, idx, apa_reference, apa_references, sink, printed, fvars, pvars>>

\* apa_reference = format_apa(metadata)
BatchFormat ==
    /\ pc = "fetched"
    /\ apa_reference' = format_apa(path, metadata)
    /\ pc' = "formatted"
    /\ UNCHANGED <<path, input, idx, metadata, apa_references, lookups, sink, printed, fvars, pvars>>

\* mutant: a failed lookup is tried again instead of being recorded
BatchAppend_retry ==
    /\ pc = "formatted"
    /\ IF metadata.hasError
       THEN UNCHANGED <<apa_references, idx>>
       ELSE /\ apa_references' = Append(apa_references, apa_reference)
            /\ idx' = idx + 1
    /\ pc' = "loop"
    /\ UNCHANGED <<path, input, metadata, apa_reference, lookups, sink, printed, fvars, pvars>>

\* apa_references.append(apa_reference), and on to the next title
BatchAppend ==
    /\ pc = "formatted"
    /\ apa_references' = Append(apa_references, apa_reference)
    /\ idx' = idx + 1
    /\ pc' = "loop"
    /\ UNCHANGED <<path, input, metadata, apa_reference, lookups, sink, printed, fvars, pvars>>

\* df["APA Reference"] = apa_references; df.to_csv(output_csv, index=False)
WriteCsv ==
    /\ pc = "loop"
    /\ path = "csv"
    /\ idx > Len(input.titles)
    /\ sink' = Append(sink, Output("csv",
                 [i \in 1..Len(input.titles) |-> <<input.titles[i], apa_references[i]>>], <<>>))
    /\ printed' = Append(printed, <<"A","P","A"," ","f","o","r","m","a","t","t","e","d"," ","r","e","f","e","r","e","n","c","e","s"," ","s","a","v","e","d">>)
    /\ pc' = "done"
    /\ UNCHANGED <<path, input, idx, metadata, apa_reference, apa_references, lookups, fvars, pvars>>

\* save_to_word(apa_references, output_word)
WriteWord ==
    /\ pc = "loop"
    /\ path = "word"
    /\ idx > Len(input.titles)
    /\ sink' = Append(sink, Output("docx", <<>>, save_to_word(apa_references)))
    /\ printed' = Append(printed, <<"A","P","A"," ","f","o","r","m","a","t","t","e","d"," ","r","e","f","e","r","e","n","c","e","s"," ","s","a","v","e","d">>)
    /\ pc' = "done"
    /\ UNCHANGED <<path, input, idx, metadata, apa_reference, apa_references, lookups, fvars, pvars>>

Next == ReadCsv \/ BatchFetch \/ BatchFormat \/ BatchAppend \/ WriteCsv \/ WriteWord

Spec == BInit /\ [][Next]_vars

(***************************************************************************)
(* Properties                                                              *)
(***************************************************************************)
\* the first item of a response that has one
FirstItem == response.items[1]
Successful == fpc # "idle" /\ response.kind = "json" /\ has_items(response)

\* all names but the last, each followed by ", "
RECURSIVE EachThenComma(_)
EachThenComma(names) ==
    IF names = <<>> THEN <<>>
    ELSE EachThenComma(SubSeq(names, 1, Len(names) - 1)) \o names[Len(names)] \o <<","," ">>

Usable(a) ==
    /\ a.given.k = "str" /\ a.given.s # <<>>
    /\ a.family.k = "str" /\ a.family.s # <<>>

\* C2: the rendered names are, in order, one "{family}, {initials}" per author
\* whose given and family are both non-empty, and every rendered entry carries
\* at least one initial "X.", also when given holds only whitespace.
C2_RenderedNames ==
    (Successful /\ fpc # "start") =>
        LET kept == SelectSeq(IF FirstItem.hasAuthor THEN FirstItem.author ELSE <<>>, Usable)
        IN /\ Len(authorsX) = Len(kept)
           /\ authorsW = authorsX
           /\ \A i \in 1..Len(kept) :
                LET fam == kept[i].family.s
                    e == authorsX[i]
                    rest == SubSeq(e, Len(fam) + 3, Len(e))
                IN /\ SubSeq(e, 1, Len(fam) + 2) = fam \o <<","," ">>
                   /\ Len(rest) >= 2
                   /\ rest[1] \notin Whitespace
                   /\ rest[2] = "."
                   /\ rest[Len(rest)] = "."
                   /\ Len(rest) = 3 * Len(split(kept[i].given.s)) - 1

\* C4: a record with an error marker is composed to exactly its message in
\* both paths, and the document gets it as one plain paragraph; a record
\* without one goes through the template (three runs in the document).
C4_ErrorPassThrough ==
    /\ fpc \in {"formatted", "saved"} =>
         /\ metadataX.hasError =>
              /\ refX = metadataX.Error
              /\ (response.kind = "raise" => refX = response.msg)
              /\ (response.kind = "json" /\ ~has_items(response) => refX = NoData)
         /\ metadataW.hasError => (~refW.isDict /\ refW.text = metadataW.Error)
         /\ ~metadataX.hasError =>
              SubSeq(refX, 1, Len(metadataX.Author.s) + 2) = metadataX.Author.s \o <<" ","(">>
         /\ ~metadataW.hasError => refW.isDict
    /\ fpc = "saved" =>
         /\ Len(doc) = 2
         /\ metadataW.hasError =>
              doc[2].runs = <<[text |-> metadataW.Error, bold |-> "None", italic |-> "None"]>>
         /\ ~metadataW.hasError =>
              /\ Len(doc[2].runs) = 3
              /\ doc[2].runs[2].italic = "True"

C4_Witness ==
    /\ fpc = "saved"
    /\ metadataX.hasError /\ metadataW.hasError
    /\ refX = NoData
    /\ doc[2].runs[1].text = NoData

\* the fields of the first item that are absent or present but empty
Empty(v) == v.k = "missing" \/ (v.k = "str" /\ v.s = <<>>)
NoYear == ~FirstItem.hasPP \/ ~FirstItem.hasDP \/ FirstItem.dateParts = <<>> \/ FirstItem.dateParts[1] = <<>>
NoJournal == ~FirstItem.hasCT \/ FirstItem.containerTitle = <<>> \/ Empty(FirstItem.containerTitle[1])

SentinelsIn(md) ==
    /\ (NoYear => md.Year = StrV(ND))
    /\ (NoJournal => md.Journal = StrV(NA))
    /\ (Empty(FirstItem.volume) => md.Volume = StrV(NA))
    /\ (Empty(FirstItem.issue) => md.Issue = StrV(NA))
    /\ (Empty(FirstItem.page) => md.Pages = StrV(NA))
    /\ (Empty(FirstItem.DOI) => md.DOI = StrV(NA))
    /\ ((~FirstItem.hasAuthor \/ FirstItem.author = <<>>) => md.Author = StrV(NA))

\* C5: a successful lookup never yields an error marker, and every field of
\* the item that is absent or present but empty holds its sentinel in the
\* record that is then composed.
C5_MissingFieldNeverFails ==
    /\ (Successful /\ fpc # "start") => (~metadataX.hasError /\ ~metadataW.hasError)
    /\ (Successful /\ fpc \in {"formatted", "saved"}) =>
           (SentinelsIn(metadataX) /\ SentinelsIn(metadataW))

\* the citation's segments, an absent field of the item giving <<"a","b","s","e","n","t">>
Segment(isAbsent, absent, present) == IF isAbsent THEN absent ELSE present

Citation(issueAbsent) ==
    Segment(authorsX = <<>>, NA, Format(metadataX.Author))
    \o <<" ","(">> \o Segment(~FirstItem.hasPP \/ ~FirstItem.hasDP, ND, Format(metadataX.Year))
    \o <<")","."," ">> \o title
    \o <<"."," ","*">> \o Segment(~FirstItem.hasCT, NA, Format(metadataX.Journal))
    \o <<"*",","," ">> \o Segment(FirstItem.volume = Missing, NA, Format(metadataX.Volume))
    \o Segment(FirstItem.issue = Missing, issueAbsent, <<"(">> \o Format(metadataX.Issue) \o <<")">>)
    \o <<","," ">> \o Segment(FirstItem.page = Missing, NA, Format(metadataX.Pages))
    \o <<"."," ">> \o Segment(FirstItem.DOI = Missing, NA, <<"h","t","t","p","s",":","/","/","d","o","i",".","o","r","g","/">> \o Format(metadataX.DOI))

Composed == Successful /\ fpc \in {"formatted", "saved"} /\ ~metadataX.hasError

\* C6 as stated: every one of the eight fields, the issue included, shows the
\* literal "N/A" ("n.d." for year) when it is absent.
C6_EveryAbsentFieldShown ==
    Composed => (refX = Citation(NA) \/ refX = Citation(<<"(","N","/","A",")">>))

\* C6 amended: author, year, title, journal, volume, pages and doi appear in
\* the template order and show "N/A" ("n.d." for year) when absent; an absent
\* issue is left out (empty string, no parentheses).
C6_AbsentFieldsShownButIssue ==
    Composed => refX = Citation(<<>>)

C6_Witness ==
    /\ Composed
    /\ FirstItem.issue = Missing /\ FirstItem.volume = Missing
    /\ refX = <<"N","/","A"," ","(","n",".","d",".",")","."," ","S","t","u","d","y"," ","X","."," ","*","N","/","A","*",","," ","N","/","A",","," ","N","/","A","."," ","N","/","A">>

\* C7: the three runs of the document paragraph, put together with the
\* journal between asterisks, are the CSV citation of the same response; a
\* failed lookup gives the same message in both.
C7_SameTextInBothPaths ==
    fpc = "saved" =>
        IF refW.isDict
        THEN /\ ~metadataX.hasError
             /\ refX = doc[2].runs[1].text \o <<"*">> \o doc[2].runs[2].text \o <<"*">>
                       \o doc[2].runs[3].text
        ELSE /\ metadataX.hasError
             /\ refX = doc[2].runs[1].text

\* the template of the citation, piece by piece
Template(md, issue, doi) ==
    join(<<>>, << Format(md.Author), <<" ","(">>, Format(md.Year), <<")","."," ">>, Format(md.Title), <<"."," ","*">>,
                  Format(md.Journal), <<"*",","," ">>, Format(md.Volume), issue, <<","," ">>,
                  Format(md.Pages), <<"."," ">>, doi >>)

\* C3: a record without an error marker is composed to
\* "{Author} ({Year}). {Title}. *{Journal}*, {Volume}{Issue}, {Pages}. {DOI}",
\* {Issue} being "({issue})" unless the issue is "N/A" (then empty) and {DOI}
\* "https://doi.org/{doi}" unless the doi is "N/A" (then "N/A").
C3_Template ==
    (ppc = "formatted" /\ ~rec1.hasError) =>
        cit1 = Template(rec1,
                        IF rec1.Issue = StrV(NA) THEN <<>> ELSE <<"(">> \o rec1.Issue.s \o <<")">>,
                        IF rec1.DOI = StrV(NA) THEN NA ELSE <<"h","t","t","p","s",":","/","/","d","o","i",".","o","r","g","/">> \o rec1.DOI.s)

C3_Witness ==
    /\ ppc = "formatted"
    /\ cit1 = <<"L","e","e",","," ","A","."," ","(","2","0","2","0",")","."," ","S","t","u","d","y"," ","X","."," ","*","J","."," ","o","f"," ","T","h","i","n","g","s","*",","," ","5","(","2",")",","," ","1","0","-","2","0","."," ","h","t","t","p","s",":","/","/","d","o","i",".","o","r","g","/","1","0",".","1","/","a","b","c">>
    /\ rec2.Issue = StrV(NA) /\ rec2.DOI = StrV(NA) /\ rec2.Volume = StrV(<<"5">>)
    /\ cit2 = <<"L","e","e",","," ","A","."," ","(","2","0","2","0",")","."," ","S","t","u","d","y"," ","X","."," ","*","J","."," ","o","f"," ","T","h","i","n","g","s","*",","," ","5",","," ","1","0","-","2","0","."," ","N","/","A">>

Has(s, c) == \E i \in 1..Len(s) : s[i] = c

SameFields(a, b) ==
    /\ a.Year = b.Year /\ a.Title = b.Title /\ a.Journal = b.Journal /\ a.Volume = b.Volume
    /\ a.Issue = b.Issue /\ a.Pages = b.Pages /\ a.DOI = b.DOI

PairComposed == ppc = "formatted" /\ ~rec1.hasError /\ ~rec2.hasError

\* C9 as stated: two records with the same author string and the same
\* citation have the same year, title, journal, volume, issue, pages and doi.
C9_Lossless ==
    (PairComposed /\ rec1.Author = rec2.Author /\ cit1 = cit2) => SameFields(rec1, rec2)

\* the fields keep clear of the punctuation that ends them in the template
Delimited(md) ==
    /\ md.Year.k = "int" \/ md.Year = StrV(ND)
    /\ ~Has(md.Title.s, "*")
    /\ ~Has(md.Journal.s, "*")
    /\ ~Has(md.Volume.s, "(") /\ ~Has(md.Volume.s, ",")
    /\ ~Has(md.Issue.s, ",")
    /\ ~Has(md.Pages.s, ".")

\* C9 amended: the same holds for records whose title and journal hold no
\* "*", whose volume holds no "(" and no ",", whose issue holds no "," and
\* whose pages hold no "." (year an integer or "n.d.").
C9_LosslessWhenDelimited ==
    (PairComposed /\ rec1.Author = rec2.Author /\ cit1 = cit2
        /\ Delimited(rec1) /\ Delimited(rec2)) => SameFields(rec1, rec2)

C9_Witness ==
    /\ PairComposed /\ cit1 = cit2 /\ rec1 = rec2
    /\ Delimited(rec1)
    /\ rec1.Volume = StrV(<<"5","2">>) /\ rec1.Issue = StrV(NA)

BatchRunning == pc \notin {"idle", "start"} /\ input.found /\ input.hasTitleColumn

\* C8: one lookup per title and no second one after a failure, in the order
\* of the titles, the next only once the citation of the one before is in the
\* list; when the driver is done there is one result per title and one write
\* of the sink, made after the last title and holding the titles in order.
C8_OneLookupPerTitle ==
    /\ pc # "idle" =>
         /\ \A k \in 1..Len(lookups) : lookups[k].index = k /\ lookups[k].title = input.titles[k]
         /\ Len(lookups) <= Len(input.titles)
         /\ Len(lookups) = Len(apa_references) + (IF pc \in {"fetched", "formatted"} THEN 1 ELSE 0)
         /\ Len(sink) <= 1
         /\ (pc # "done" => sink = <<>>)
    /\ (BatchRunning /\ pc = "done") =>
         /\ Len(lookups) = Len(input.titles)
         /\ Len(apa_references) = Len(input.titles)
         /\ Len(sink) = 1
         /\ (path = "csv" =>
               /\ Len(sink[1].rows) = Len(input.titles)
               /\ \A i \in 1..Len(input.titles) :
                    sink[1].rows[i] = <<input.titles[i], apa_references[i]>>)
         /\ (path = "word" => Len(sink[1].doc) = 1 + Len(input.titles))

C8_Witness ==
    /\ pc = "done" /\ path = "csv"
    /\ Len(input.titles) = 2
    /\ Len(lookups) = 2 /\ lookups[1].response.kind = "raise"
    /\ Len(sink) = 1 /\ Len(sink[1].rows) = 2

\* the message a failed lookup leaves
FailureMessage(resp) == IF resp.kind = "raise" THEN resp.msg ELSE NoData
Failed(resp) == resp.kind = "raise" \/ ~has_items(resp)

\* C10: result i is what title i and its own lookup response give, whatever
\* the other lookups gave; a failed lookup leaves exactly its message at its
\* position; every title is looked up, whatever failed before it.
C10_FailuresIsolated ==
    /\ pc # "idle" =>
         \A i \in 1..Len(apa_references) :
            /\ apa_references[i] = format_apa(path, fetch_metadata(path, input.titles[i], lookups[i].response))
            /\ Failed(lookups[i].response) =>
                 apa_references[i] = (IF path = "csv" THEN FailureMessage(lookups[i].response)
                                      ELSE StrRef(FailureMessage(lookups[i].response)))
    /\ (BatchRunning /\ pc = "done") =>
         /\ Len(lookups) = Len(input.titles)
         /\ printed = << <<"A","P","A"," ","f","o","r","m","a","t","t","e","d"," ","r","e","f","e","r","e","n","c","e","s"," ","s","a","v","e","d">> >>
         /\ (path = "word" =>
               \A i \in 1..Len(input.titles) :
                  Failed(lookups[i].response) =>
                     sink[1].doc[i + 1].runs[1].text = FailureMessage(lookups[i].response))

C10_Witness ==
    /\ pc = "done" /\ path = "csv"
    /\ Len(lookups) = 3
    /\ lookups[1].response.kind = "raise"
    /\ ~Failed(lookups[2].response)
    /\ ~has_items(lookups[3].response)
    /\ apa_references[1] = <<"R","e","a","d"," ","t","i","m","e","d"," ","o","u","t",".">>
    /\ apa_references[2] = <<"S","m","i","t","h",","," ","J","."," ","&"," ","D","o","e",","," ","J","."," ","(","2","0","2","0",")","."," ","Y","."," ","*","J","."," ","o","f"," ","T","h","i","n","g","s","*",","," ","1","2","(","2",")",","," ","1","0","-","2","0","."," ","h","t","t","p","s",":","/","/","d","o","i",".","o","r","g","/","1","0",".","1","/","a","b","c">>
    /\ apa_references[3] = NoData

====
